---- MODULE Spec2Model ----
(***************************************************************************)
(* Model of clover's board.rs: a Board with its thread cache and its       *)
(* catalog_last_modified timestamp, the operations Board::new,             *)
(* Board::catalog, Board::find_cached, Board::get_thread and the pure      *)
(* function Catalog::find.  The transport client, the Thread entity and    *)
(* the ThreadCache live outside board.rs; they are modelled by the         *)
(* interface board.rs uses.                                                *)
(***************************************************************************)
EXTENDS Integers, Sequences, FiniteSets, TLC

VARIABLES board, call, procs, locks

vars == <<board, call, procs, locks>>

(***************************************************************************)
(* Bounds of the model.                                                    *)
(***************************************************************************)
MaxVer == 1
MaxPages == 2
MaxTopics == 2

(***************************************************************************)
(* Option and Result values.                                               *)
(***************************************************************************)
None == [tag |-> "None"]
Some(v) == [tag |-> "Some", val |-> v]
Ok(v) == [tag |-> "Ok", val |-> v]
Err(e) == [tag |-> "Err", err |-> e]

\* The thread numbers in use.
ThreadNos == {1, 2}

(***************************************************************************)
(* Text: sequences of characters.  Posts carry a subject and a comment.    *)
(***************************************************************************)
Contents ==
    { [sub |-> <<"H", "i">>, com |-> <<>>],
      [sub |-> <<>>, com |-> <<"b", "y", "e">>] }

Posts == { [no |-> n, sub |-> c.sub, com |-> c.com] : n \in ThreadNos, c \in Contents }

Queries == { <<>>, <<"h", "I">>, <<"y", "E">>, <<"x">>, <<"(">> }

ToLower(c) ==
    CASE c = "H" -> "h"
      [] c = "I" -> "i"
      [] c = "E" -> "e"
      [] OTHER -> c

\* RegexBuilder::new(query).case_insensitive(true).unicode(true).build():
\* an unclosed group does not compile; any other query here is a literal.
RegexBuild(query) ==
    IF \E i \in 1..Len(query) : query[i] = "("
    THEN Err("InvalidQuery")
    ELSE Ok([pat |-> [i \in 1..Len(query) |-> ToLower(query[i])]])

\* Regex::is_match on one text: the literal occurs somewhere, ignoring case.
RegexIsMatch(regex, text) ==
    \E s \in 0..(Len(text) - Len(regex.pat)) :
        \A j \in 1..Len(regex.pat) : ToLower(text[s + j]) = regex.pat[j]

\* Post::is_match: one of the post's text fields matches.
PostIsMatch(post, regex) ==
    RegexIsMatch(regex, post.sub) \/ RegexIsMatch(regex, post.com)

(***************************************************************************)
(* Catalog, Page.                                                          *)
(***************************************************************************)
SeqsUpTo(S, n) == UNION { [1..k -> S] : k \in 0..n }

\* The pages that cut the topic sequence ts after the positions cuts.
MakePages(ts, cuts) ==
    LET p == Len(cuts) + 1
        lo(i) == IF i = 1 THEN 0 ELSE cuts[i - 1]
        hi(i) == IF i = p THEN Len(ts) ELSE cuts[i]
    IN  [i \in 1..p |-> [page |-> i, topics |-> SubSeq(ts, lo(i) + 1, hi(i))]]

\* The page arrays a catalog.json body can hold: up to MaxTopics topics cut
\* into at most MaxPages pages that each hold a topic, the array of no page
\* and the array of one page without topics.
PageArrays ==
    {<<>>} \cup
    UNION { { MakePages(ts, cuts) :
                cuts \in { c \in SeqsUpTo(1..(Len(ts) - 1), MaxPages - 1) :
                             \A i \in 1..(Len(c) - 1) : c[i] < c[i + 1] } } :
            ts \in SeqsUpTo(Posts, MaxTopics) }

Catalogs == { [pages |-> p] : p \in PageArrays }

RECURSIVE FoldTopics(_, _)
FoldTopics(pages, topics) ==
    IF pages = <<>> THEN topics
    ELSE FoldTopics(Tail(pages), topics \o Head(pages).topics)

\* Catalog::topics
Topics(catalog) == FoldTopics(catalog.pages, <<>>)

(***************************************************************************)
(* Thread entity and thread cache.                                         *)
(***************************************************************************)
\* Thread::from_topic: a thread holding only its topic.
FromTopic(topic) == [topic |-> topic, expired |-> FALSE, ver |-> 0]

\* Thread::from_deserializer: a thread built from a thread's JSON.
FromDeserializer(d) == [topic |-> d.topic, expired |-> FALSE, ver |-> d.ver]

\* Thread::is_match
ThreadIsMatch(thread, regex) == PostIsMatch(thread.topic, regex)

UpdateOutcomes == {"modified", "not_modified", "expired", "error"}

\* Thread::update: revalidates the thread against the transport.  The
\* outcome is what the transport answered.
Update(thread, outcome) ==
    CASE outcome = "modified" ->
            [res |-> Ok(<<>>), thread |-> [thread EXCEPT !.ver = @ + 1]]
      [] outcome = "not_modified" ->
            [res |-> Ok(<<>>), thread |-> thread]
      [] outcome = "expired" ->
            [res |-> Ok(<<>>), thread |-> [thread EXCEPT !.expired = TRUE]]
      [] OTHER ->
            [res |-> Err("Transport"), thread |-> thread]

\* ThreadCache::new
CacheNew == <<>>

\* ThreadCache::insert, keyed by the thread number.
CacheInsert(cache, thread) ==
    [n \in (DOMAIN cache) \cup {thread.topic.no} |->
        IF n = thread.topic.no THEN thread ELSE cache[n]]

\* ThreadCache::contains
CacheContains(cache, no) == no \in DOMAIN cache

\* ThreadCache::remove
CacheRemove(cache, no) == [n \in (DOMAIN cache) \ {no} |-> cache[n]]

(***************************************************************************)
(* Time: DateTime<UTC> as seconds since the epoch plus nanoseconds.        *)
(***************************************************************************)
Times ==
    { [secs |-> 783459811, nanos |-> 500],
      [secs |-> 1483228805, nanos |-> 0] }

DayNames == <<"Sun", "Mon", "Tue", "Wed", "Thu", "Fri", "Sat">>
MonthNames == <<"Jan", "Feb", "Mar", "Apr", "May", "Jun",
                "Jul", "Aug", "Sep", "Oct", "Nov", "Dec">>
Digits == <<"0", "1", "2", "3", "4", "5", "6", "7", "8", "9">>

Digit(n) == Digits[n + 1]
Pad2(n) == <<Digit((n \div 10) % 10), Digit(n % 10)>>
Pad4(n) == <<Digit((n \div 1000) % 10), Digit((n \div 100) % 10),
             Digit((n \div 10) % 10), Digit(n % 10)>>

\* The civil date of a day count since 1970-01-01.
CivilFromDays(days) ==
    LET z == days + 719468
        era == z \div 146097
        doe == z - era * 146097
        yoe == (doe - doe \div 1460 + doe \div 36524 - doe \div 146096) \div 365
        doy == doe - (365 * yoe + yoe \div 4 - yoe \div 100)
        mp == (5 * doy + 2) \div 153
        d == doy - (153 * mp + 2) \div 5 + 1
        m == IF mp < 10 THEN mp + 3 ELSE mp - 9
        y == yoe + era * 400 + (IF m <= 2 THEN 1 ELSE 0)
    IN  [year |-> y, month |-> m, day |-> d]

\* dt.format("%a, %d %b %Y %T GMT").to_string(), as a sequence of tokens.
FormatDate(dt) ==
    LET days == dt.secs \div 86400
        sod == dt.secs % 86400
        c == CivilFromDays(days)
    IN  <<DayNames[((days + 4) % 7) + 1], ", ">> \o Pad2(c.day) \o <<" ">>
        \o <<MonthNames[c.month], " ">> \o Pad4(c.year) \o <<" ">>
        \o Pad2(sod \div 3600) \o <<":">> \o Pad2((sod % 3600) \div 60)
        \o <<":">> \o Pad2(sod % 60) \o <<" GMT">>

(***************************************************************************)
(* Transport client.                                                       *)
(***************************************************************************)
BoardNames == {"g", "zz"}

\* Client::is_valid_board
IsValidBoard(name) == name = "g"

CatalogUrl(name) == <<"https://a.4cdn.org/", name, "/catalog.json">>
ThreadUrl(name, no) == <<"https://a.4cdn.org/", name, "/thread/", no, ".json">>

Statuses == {200, 304, 404}

Unreadable == [kind |-> "unreadable"]
Malformed == [kind |-> "malformed"]
Text(json) == [kind |-> "text", json |-> json]

\* What Client::get can answer to a catalog request.
CatalogResponses ==
    {Err("Transport")}
    \cup { Ok([status |-> s, body |-> Malformed]) : s \in Statuses \ {200} }
    \cup { Ok([status |-> 200, body |-> b]) :
             b \in {Unreadable, Malformed} \cup { Text(p) : p \in PageArrays } }

\* res.read_to_string(&mut buf)
ReadToString(body) ==
    IF body.kind = "unreadable" THEN Err("Io") ELSE Ok(body)

\* r#"{"pages":"# + &buf + "}" then serde_json::from_str::<Catalog>
ParseCatalog(buf) ==
    IF buf.kind = "text" THEN Ok([pages |-> buf.json]) ELSE Err("Json")

(***************************************************************************)
(* The Board.                                                              *)
(***************************************************************************)
Self == board.val

NoCall == [op |-> "none", done |-> FALSE]

\* The threads of control that call into one Board.
Callers == {"a", "b"}

\* The mutexes: of catalog_last_modified, of thread_cache and of the client.
LockNames == {"timestamp", "cache", "client"}

\* A thread of control that is not inside a call.
Idle == [pc |-> "idle"]

\* No caller is inside a call and no mutex is held or poisoned.
Quiet ==
    /\ procs = [t \in Callers |-> Idle]
    /\ locks = [l \in LockNames |-> [owner |-> "free", poisoned |-> FALSE]]

\* Board::new without the is_valid_board check.
BoardNew_NoValidation(name) ==
    Ok([name |-> name,
        thread_cache |-> CacheNew,
        catalog_last_modified |-> None])

\* Board::new
BoardNew(name) ==
    IF ~IsValidBoard(name)
    THEN Err("InvalidBoardName")
    ELSE Ok([name |-> name,
             thread_cache |-> CacheNew,
             catalog_last_modified |-> None])

\* A caller constructs the Board; no other thread can hold it yet.
New(name) ==
    /\ call = NoCall
    /\ board = None
    /\ LET r == BoardNew(name)
       IN  /\ board' = IF r.tag = "Ok" THEN Some(r.val) ELSE board
           /\ call' = [op |-> "new", arg |-> name, done |-> TRUE, ret |-> r]
    /\ UNCHANGED <<procs, locks>>

(***************************************************************************)
(* The calls on a Board.  Every field of a Board is behind its own mutex,  *)
(* so a call is a sequence of steps: a step is one critical section or one *)
(* transport call, and the steps of the calls of several threads           *)
(* interleave.  locks holds the owner of each mutex and whether a panic    *)
(* has poisoned it; procs holds each thread's position and locals.         *)
(***************************************************************************)
Free(l) == locks[l].owner = "free"
Take(l, t) == [locks EXCEPT ![l].owner = t]
Release(ls) == [l \in LockNames |->
                  IF l \in ls THEN [locks[l] EXCEPT !.owner = "free"] ELSE locks[l]]

\* A panic of the thread that holds the guard of l: the guard is dropped
\* while unwinding and the mutex is left poisoned.
Poison(l) == [locks EXCEPT ![l] = [owner |-> "free", poisoned |-> TRUE]]

Done(p, ret) == [pc |-> "done", op |-> p.op, arg |-> p.arg, ret |-> ret]
Panicked(p) == [pc |-> "panicked", op |-> p.op, arg |-> p.arg]

\* The caller t moves to p.
Goto(t, p) == procs' = [procs EXCEPT ![t] = p]

\* The request Board::catalog sends, never carrying the conditional header.
CatalogRequest_Unconditional(self) ==
    [url |-> CatalogUrl(self.name), ims |-> None]

\* The request Board::catalog sends.
CatalogRequest(self) ==
    IF self.catalog_last_modified = None
    THEN [url |-> CatalogUrl(self.name), ims |-> None]
    ELSE [url |-> CatalogUrl(self.name),
          ims |-> Some(FormatDate(self.catalog_last_modified.val))]

\* A caller enters Board::catalog.
StartCatalog(t) ==
    /\ board # None
    /\ procs[t].pc = "idle"
    /\ Goto(t, [pc |-> "cat_lock_ts", op |-> "catalog", arg |-> None])
    /\ UNCHANGED <<board, locks>>

\* match *self.catalog_last_modified.lock().unwrap(): the guard lives until
\* the end of the let statement.
CatLockTs(t) ==
    /\ procs[t].pc = "cat_lock_ts"
    /\ Free("timestamp")
    /\ IF locks["timestamp"].poisoned
       THEN /\ Goto(t, Panicked(procs[t]))
            /\ UNCHANGED locks
       ELSE /\ Goto(t, [procs[t] EXCEPT !.pc = "cat_lock_client"])
            /\ locks' = Take("timestamp", t)
    /\ UNCHANGED board

\* self.client.lock().unwrap().get(..): the request is sent with the
\* timestamp guard and the client guard held.
CatSend(t) ==
    /\ procs[t].pc = "cat_lock_client"
    /\ Free("client")
    /\ IF locks["client"].poisoned
       THEN /\ Goto(t, Panicked(procs[t]))
            /\ locks' = Poison("timestamp")
       ELSE /\ Goto(t, [pc |-> "cat_get", op |-> "catalog", arg |-> None,
                        request |-> CatalogRequest(Self)])
            /\ locks' = Take("client", t)
    /\ UNCHANGED board

\* Board::catalog forgetting the timestamp on a 304 response.
CatResponse_Forget304(t, response) ==
    /\ procs[t].pc = "cat_get"
    /\ locks' = Release({"client", "timestamp"})
    /\ Goto(t, IF response.tag = "Err" THEN Done(procs[t], response)
               ELSE IF response.val.status = 200
               THEN [pc |-> "cat_stamp", op |-> "catalog", arg |-> None,
                     body |-> response.val.body]
               ELSE IF response.val.status = 304 THEN Done(procs[t], Ok(None))
               ELSE Done(procs[t], Err("UnexpectedResponse")))
    /\ board' = IF response.tag = "Ok" /\ response.val.status = 304
                THEN Some([Self EXCEPT !.catalog_last_modified = None])
                ELSE board

\* Board::catalog taking every status but 200 for "not modified".
CatResponse_OtherIsNotModified(t, response) ==
    /\ procs[t].pc = "cat_get"
    /\ locks' = Release({"client", "timestamp"})
    /\ Goto(t, IF response.tag = "Err" THEN Done(procs[t], response)
               ELSE IF response.val.status = 200
               THEN [pc |-> "cat_stamp", op |-> "catalog", arg |-> None,
                     body |-> response.val.body]
               ELSE Done(procs[t], Ok(None)))
    /\ board' = board

\* The catalog GET returns: try! passes a transport error on, both guards
\* are dropped at the end of the let statement, then match *res.status().
CatResponse(t, response) ==
    /\ procs[t].pc = "cat_get"
    /\ locks' = Release({"client", "timestamp"})
    /\ Goto(t, IF response.tag = "Err" THEN Done(procs[t], response)
               ELSE IF response.val.status = 200
               THEN [pc |-> "cat_stamp", op |-> "catalog", arg |-> None,
                     body |-> response.val.body]
               ELSE IF response.val.status = 304 THEN Done(procs[t], Ok(None))
               ELSE Done(procs[t], Err("UnexpectedResponse")))
    /\ board' = board

\* *self.catalog_last_modified.lock().unwrap() = Some(UTC::now()), then the
\* body is read and parsed with no lock held.
CatStamp(t, now) ==
    /\ procs[t].pc = "cat_stamp"
    /\ Free("timestamp")
    /\ IF locks["timestamp"].poisoned
       THEN /\ Goto(t, Panicked(procs[t]))
            /\ board' = board
       ELSE LET buf == ReadToString(procs[t].body)
                catalog == IF buf.tag = "Ok" THEN ParseCatalog(buf.val) ELSE buf
            IN  /\ board' = Some([Self EXCEPT !.catalog_last_modified = Some(now)])
                /\ Goto(t, IF catalog.tag = "Err" THEN Done(procs[t], catalog)
                           ELSE IF Topics(catalog.val) = <<>>
                           THEN Done(procs[t], Ok(Some(catalog.val)))
                           ELSE [pc |-> "cat_insert", op |-> "catalog",
                                 arg |-> None, catalog |-> catalog.val,
                                 topics |-> Topics(catalog.val)])
    /\ UNCHANGED locks

\* The ingestion loop leaving after its first topic.
CatInsert_FirstOnly(t) ==
    /\ procs[t].pc = "cat_insert"
    /\ Free("cache")
    /\ IF locks["cache"].poisoned
       THEN /\ Goto(t, Panicked(procs[t]))
            /\ board' = board
       ELSE /\ board' = Some([Self EXCEPT !.thread_cache =
                                CacheInsert(@, FromTopic(Head(procs[t].topics)))])
            /\ Goto(t, Done(procs[t], Ok(Some(procs[t].catalog))))
    /\ UNCHANGED locks

\* The ingestion loop keeping the entry a thread number already has.
CatInsert_KeepFirst(t) ==
    /\ procs[t].pc = "cat_insert"
    /\ Free("cache")
    /\ IF locks["cache"].poisoned
       THEN /\ Goto(t, Panicked(procs[t]))
            /\ board' = board
       ELSE /\ board' =
                 IF CacheContains(Self.thread_cache, Head(procs[t].topics).no)
                 THEN board
                 ELSE Some([Self EXCEPT !.thread_cache =
                              CacheInsert(@, FromTopic(Head(procs[t].topics)))])
            /\ Goto(t, IF Tail(procs[t].topics) = <<>>
                       THEN Done(procs[t], Ok(Some(procs[t].catalog)))
                       ELSE [procs[t] EXCEPT !.topics = Tail(@)])
    /\ UNCHANGED locks

\* One round of for topic in catalog.topics(): lock the cache, insert the
\* thread built from the topic, unlock; after the last round Ok(Some(catalog)).
CatInsert(t) ==
    /\ procs[t].pc = "cat_insert"
    /\ Free("cache")
    /\ IF locks["cache"].poisoned
       THEN /\ Goto(t, Panicked(procs[t]))
            /\ board' = board
       ELSE /\ board' = Some([Self EXCEPT !.thread_cache =
                                CacheInsert(@, FromTopic(Head(procs[t].topics)))])
            /\ Goto(t, IF Tail(procs[t].topics) = <<>>
                       THEN Done(procs[t], Ok(Some(procs[t].catalog)))
                       ELSE [procs[t] EXCEPT !.topics = Tail(@)])
    /\ UNCHANGED locks

\* The order in which HashMap::values() yields the cached threads.
Orders(S) == { o \in [1..Cardinality(S) -> S] :
                 \A i, j \in 1..Cardinality(S) : o[i] = o[j] => i = j }

\* The scan of find_cached without its filter.
Matching_NoFilter(cache, order, regex) ==
    [i \in 1..Len(order) |-> cache[order[i]]]

\* let mut threads = ...values().filter(|&t| t.is_match(&regex)).cloned()
Matching(cache, order, regex) ==
    SelectSeq([i \in 1..Len(order) |-> cache[order[i]]],
              LAMBDA t : ThreadIsMatch(t, regex))

\* Board::find_cached building the matcher only after it has dropped the
\* expired threads from the cache.
StartFindCached_LateBuild(t, query) ==
    /\ board # None
    /\ procs[t].pc = "idle"
    /\ Free("cache")
    /\ LET p == [pc |-> "find_scan", op |-> "find_cached", arg |-> query]
           cache == Self.thread_cache
           live == { n \in DOMAIN cache : ~cache[n].expired }
       IN  /\ Goto(t, IF RegexBuild(query).tag = "Err"
                      THEN Done(p, RegexBuild(query)) ELSE p)
           /\ board' = Some([Self EXCEPT !.thread_cache = [n \in live |-> cache[n]]])
    /\ UNCHANGED locks

\* A caller enters Board::find_cached: try! on the build of the matcher
\* returns the error of a query that does not compile.
StartFindCached(t, query) ==
    /\ board # None
    /\ procs[t].pc = "idle"
    /\ LET p == [pc |-> "find_scan", op |-> "find_cached", arg |-> query]
       IN  Goto(t, IF RegexBuild(query).tag = "Err"
                   THEN Done(p, RegexBuild(query)) ELSE p)
    /\ board' = board
    /\ UNCHANGED locks

\* The position of find_cached once clone i is dealt with: the next round
\* of for thread in &mut threads, or Ok(threads) after the last one.
FindAdvance(p) ==
    IF p.i >= Len(p.threads) THEN Done(p, Ok(p.threads))
    ELSE [pc |-> "find_update", op |-> p.op, arg |-> p.arg,
          threads |-> p.threads, i |-> p.i + 1,
          return_threads |-> p.return_threads]

\* The scan of find_cached: lock the cache, clone the matching threads, unlock.
FindScan(t) ==
    /\ procs[t].pc = "find_scan"
    /\ Free("cache")
    /\ IF locks["cache"].poisoned
       THEN Goto(t, Panicked(procs[t]))
       ELSE \E order \in Orders(DOMAIN Self.thread_cache) :
              Goto(t, FindAdvance([op |-> "find_cached", arg |-> procs[t].arg,
                                   threads |-> Matching(Self.thread_cache, order,
                                                 RegexBuild(procs[t].arg).val),
                                   i |-> 0, return_threads |-> <<>>]))
    /\ UNCHANGED <<board, locks>>

\* thread.update() on clone i: update() locks the client and sends.
FindUpdateSend(t) ==
    /\ procs[t].pc = "find_update"
    /\ Free("client")
    /\ IF locks["client"].poisoned
       THEN /\ Goto(t, Panicked(procs[t]))
            /\ UNCHANGED locks
       ELSE /\ Goto(t, [procs[t] EXCEPT !.pc = "find_get"])
            /\ locks' = Take("client", t)
    /\ UNCHANGED board

\* The loop of find_cached leaving expired threads in the cache.
FindUpdateResponse_NoRemove(t, outcome) ==
    /\ procs[t].pc = "find_get"
    /\ outcome = "modified" => procs[t].threads[procs[t].i].ver < MaxVer
    /\ locks' = Release({"client"})
    /\ LET p == procs[t]
           u == Update(p.threads[p.i], outcome)
           q == [p EXCEPT !.threads[p.i] = u.thread]
       IN  Goto(t, IF u.res.tag = "Err" THEN Done(p, u.res)
                   ELSE IF ~u.thread.expired
                   THEN FindAdvance([q EXCEPT !.return_threads = Append(@, u.thread)])
                   ELSE FindAdvance(q))
    /\ UNCHANGED board

\* The loop of find_cached dropping the thread whose update() failed.
FindUpdateResponse_RemoveOnError(t, outcome) ==
    /\ procs[t].pc = "find_get"
    /\ outcome = "modified" => procs[t].threads[procs[t].i].ver < MaxVer
    /\ locks' = Release({"client"})
    /\ LET p == procs[t]
           u == Update(p.threads[p.i], outcome)
           q == [p EXCEPT !.threads[p.i] = u.thread]
       IN  /\ Goto(t, IF u.res.tag = "Err" THEN Done(p, u.res)
                      ELSE IF ~u.thread.expired
                      THEN FindAdvance([q EXCEPT !.return_threads = Append(@, u.thread)])
                      ELSE [q EXCEPT !.pc = "find_remove"])
           /\ board' = IF u.res.tag = "Err"
                       THEN Some([Self EXCEPT !.thread_cache =
                                    CacheRemove(@, u.thread.topic.no)])
                       ELSE board

\* update() of clone i returns and the client guard is dropped: try! leaves
\* the call on an error, a live thread is pushed to return_threads, an
\* expired one is to be removed from the cache.
FindUpdateResponse(t, outcome) ==
    /\ procs[t].pc = "find_get"
    /\ outcome = "modified" => procs[t].threads[procs[t].i].ver < MaxVer
    /\ locks' = Release({"client"})
    /\ LET p == procs[t]
           u == Update(p.threads[p.i], outcome)
           q == [p EXCEPT !.threads[p.i] = u.thread]
       IN  Goto(t, IF u.res.tag = "Err" THEN Done(p, u.res)
                   ELSE IF ~u.thread.expired
                   THEN FindAdvance([q EXCEPT !.return_threads = Append(@, u.thread)])
                   ELSE [q EXCEPT !.pc = "find_remove"])
    /\ UNCHANGED board

\* self.thread_cache.lock().unwrap().remove(thread.topic.no)
FindRemove(t) ==
    /\ procs[t].pc = "find_remove"
    /\ Free("cache")
    /\ IF locks["cache"].poisoned
       THEN /\ Goto(t, Panicked(procs[t]))
            /\ board' = board
       ELSE /\ board' = Some([Self EXCEPT !.thread_cache =
                                CacheRemove(@, procs[t].threads[procs[t].i].topic.no)])
            /\ Goto(t, FindAdvance(procs[t]))
    /\ UNCHANGED locks

\* What Client::get can answer to the request for one thread's JSON.
ThreadResponses(no) ==
    {Err("Transport"), Ok([status |-> 404, body |-> Malformed])}
    \cup { Ok([status |-> 200, body |-> b]) :
             b \in {Unreadable, Malformed}
                   \cup { Text([topic |-> p, ver |-> v]) :
                            p \in {q \in Posts : q.no = no}, v \in 0..MaxVer } }

\* serde_json::from_str::<ThreadDeserializer>
ParseThread(buf) ==
    IF buf.kind = "text" THEN Ok(buf.json) ELSE Err("Json")

\* A caller enters Board::get_thread.
StartGetThread(t, thread_no) ==
    /\ board # None
    /\ procs[t].pc = "idle"
    /\ Goto(t, [pc |-> "get_contains", op |-> "get_thread", arg |-> thread_no])
    /\ UNCHANGED <<board, locks>>

\* if self.thread_cache.lock().unwrap().contains(thread_no): the guard is
\* dropped at the end of the condition.
GetContains(t) ==
    /\ procs[t].pc = "get_contains"
    /\ Free("cache")
    /\ Goto(t, IF locks["cache"].poisoned THEN Panicked(procs[t])
               ELSE IF CacheContains(Self.thread_cache, procs[t].arg)
               THEN [procs[t] EXCEPT !.pc = "get_lock_cache"]
               ELSE [procs[t] EXCEPT !.pc = "get_fetch_lock"])
    /\ UNCHANGED <<board, locks>>

\* self.thread_cache.lock().unwrap().threads.get_mut(&thread_no).unwrap():
\* the guard lives until update() has returned; unwrap panics with the
\* guard held when the entry is gone.
GetLockCache(t) ==
    /\ procs[t].pc = "get_lock_cache"
    /\ Free("cache")
    /\ IF locks["cache"].poisoned
       THEN /\ Goto(t, Panicked(procs[t]))
            /\ UNCHANGED locks
       ELSE IF ~CacheContains(Self.thread_cache, procs[t].arg)
       THEN /\ Goto(t, Panicked(procs[t]))
            /\ locks' = Poison("cache")
       ELSE /\ Goto(t, [procs[t] EXCEPT !.pc = "get_update_lock"])
            /\ locks' = Take("cache", t)
    /\ UNCHANGED board

\* update() on the cache entry locks the client and sends, with the cache
\* guard held.
GetUpdateSend(t) ==
    /\ procs[t].pc = "get_update_lock"
    /\ Free("client")
    /\ IF locks["client"].poisoned
       THEN /\ Goto(t, Panicked(procs[t]))
            /\ locks' = Poison("cache")
       ELSE /\ Goto(t, [procs[t] EXCEPT !.pc = "get_update_get"])
            /\ locks' = Take("client", t)
    /\ UNCHANGED board

\* get_thread running update() on a clone of the cache entry.
GetUpdateResponse_OnClone(t, outcome) ==
    /\ procs[t].pc = "get_update_get"
    /\ outcome = "modified" => Self.thread_cache[procs[t].arg].ver < MaxVer
    /\ locks' = Release({"client", "cache"})
    /\ LET u == Update(Self.thread_cache[procs[t].arg], outcome)
       IN  /\ board' = board
           /\ Goto(t, IF u.res.tag = "Err" THEN Done(procs[t], u.res)
                      ELSE [procs[t] EXCEPT !.pc = "get_read"])

\* update() of the cache entry returns: the entry is updated in place, both
\* guards are dropped, try! leaves the call on an error.
GetUpdateResponse(t, outcome) ==
    /\ procs[t].pc = "get_update_get"
    /\ outcome = "modified" => Self.thread_cache[procs[t].arg].ver < MaxVer
    /\ locks' = Release({"client", "cache"})
    /\ LET u == Update(Self.thread_cache[procs[t].arg], outcome)
       IN  /\ board' = Some([Self EXCEPT !.thread_cache[procs[t].arg] = u.thread])
           /\ Goto(t, IF u.res.tag = "Err" THEN Done(procs[t], u.res)
                      ELSE [procs[t] EXCEPT !.pc = "get_read"])

\* Ok(self.thread_cache.lock().unwrap().get(thread_no).unwrap().clone())
GetRead(t) ==
    /\ procs[t].pc = "get_read"
    /\ Free("cache")
    /\ IF locks["cache"].poisoned
       THEN /\ Goto(t, Panicked(procs[t]))
            /\ UNCHANGED locks
       ELSE IF ~CacheContains(Self.thread_cache, procs[t].arg)
       THEN /\ Goto(t, Panicked(procs[t]))
            /\ locks' = Poison("cache")
       ELSE /\ Goto(t, Done(procs[t], Ok(Self.thread_cache[procs[t].arg])))
            /\ UNCHANGED locks
    /\ UNCHANGED board

\* self.client.lock().unwrap().get(.., None) for the thread's JSON.
GetFetchSend(t) ==
    /\ procs[t].pc = "get_fetch_lock"
    /\ Free("client")
    /\ IF locks["client"].poisoned
       THEN /\ Goto(t, Panicked(procs[t]))
            /\ UNCHANGED locks
       ELSE /\ Goto(t, [pc |-> "get_fetch_get", op |-> "get_thread",
                        arg |-> procs[t].arg,
                        request |-> [url |-> ThreadUrl(Self.name, procs[t].arg),
                                     ims |-> None]])
            /\ locks' = Take("client", t)
    /\ UNCHANGED board

\* The thread GET returns and the client guard is dropped; the body is read
\* and deserialized with no lock held.
GetFetchResponse(t, response) ==
    /\ procs[t].pc = "get_fetch_get"
    /\ response \in ThreadResponses(procs[t].arg)
    /\ locks' = Release({"client"})
    /\ LET buf == IF response.tag = "Ok" THEN ReadToString(response.val.body)
                  ELSE response
           d == IF buf.tag = "Ok" THEN ParseThread(buf.val) ELSE buf
       IN  Goto(t, IF d.tag = "Err" THEN Done(procs[t], d)
                   ELSE [pc |-> "get_insert", op |-> "get_thread",
                         arg |-> procs[t].arg,
                         thread |-> FromDeserializer(d.val)])
    /\ UNCHANGED board

\* get_thread returning the fetched thread without caching it.
GetInsert_NoInsert(t) ==
    /\ procs[t].pc = "get_insert"
    /\ Free("cache")
    /\ IF locks["cache"].poisoned
       THEN /\ Goto(t, Panicked(procs[t]))
            /\ board' = board
       ELSE /\ board' = board
            /\ Goto(t, Done(procs[t], Ok(procs[t].thread)))
    /\ UNCHANGED locks

\* self.thread_cache.lock().unwrap().insert(thread.clone()); Ok(thread)
GetInsert(t) ==
    /\ procs[t].pc = "get_insert"
    /\ Free("cache")
    /\ IF locks["cache"].poisoned
       THEN /\ Goto(t, Panicked(procs[t]))
            /\ board' = board
       ELSE /\ board' = Some([Self EXCEPT !.thread_cache =
                                CacheInsert(@, procs[t].thread)])
            /\ Goto(t, Done(procs[t], Ok(procs[t].thread)))
    /\ UNCHANGED locks

\* The caller takes the result of its call and is free for the next one.
ThreadReturn(t) ==
    /\ procs[t].pc = "done"
    /\ Goto(t, Idle)
    /\ UNCHANGED <<board, locks>>

\* Catalog::find without the is_empty check.
CatalogFind_NoEmptyCheck(catalog, query) ==
    LET regex == RegexBuild(query)
    IN  IF regex.tag = "Err" THEN regex
        ELSE Ok(Some(SelectSeq(Topics(catalog),
                               LAMBDA t : PostIsMatch(t, regex.val))))

\* Catalog::find
CatalogFind(catalog, query) ==
    LET regex == RegexBuild(query)
    IN  IF regex.tag = "Err" THEN regex
        ELSE LET topics == SelectSeq(Topics(catalog),
                               LAMBDA t : PostIsMatch(t, regex.val))
             IN  IF topics = <<>> THEN Ok(None) ELSE Ok(Some(topics))

\* A caller applies Catalog::find to a catalog it holds.
Find(catalog, query) ==
    /\ call = NoCall
    /\ board' = board
    /\ call' = [op |-> "find", catalog |-> catalog, arg |-> query, done |-> TRUE,
                ret |-> CatalogFind(catalog, query)]
    /\ UNCHANGED <<procs, locks>>

\* The caller takes the result of Board::new or Catalog::find.
Return ==
    /\ call # NoCall
    /\ call.op \in {"new", "find"}
    /\ call' = NoCall
    /\ board' = board
    /\ UNCHANGED <<procs, locks>>

RECURSIVE InsertTopics(_, _)
\* The cache after a whole run of the ingestion loop of Board::catalog that
\* no other thread interleaves with.
InsertTopics(cache, topics) ==
    IF topics = <<>> THEN cache
    ELSE InsertTopics(CacheInsert(cache, FromTopic(Head(topics))), Tail(topics))

\* The boards one thread can have built before it shares the board: a new
\* board, or a new board after one call of catalog answered 200.
BuiltBoards ==
    {BoardNew("g").val}
    \cup { [BoardNew("g").val EXCEPT
              !.catalog_last_modified = Some(now),
              !.thread_cache = InsertTopics(CacheNew, topics)] :
             now \in Times, topics \in {<<>>} \cup { Topics(c) : c \in Catalogs } }

(***************************************************************************)
(* The program: the threads in Callers share one Board, which is either    *)
(* still to be constructed or has been built by one of them, and each      *)
(* makes one call; the steps of the calls interleave.                      *)
(***************************************************************************)
Init ==
    /\ board \in {None} \cup { Some(b) : b \in BuiltBoards }
    /\ call = NoCall
    /\ Quiet

\* The calls of the threads keep no record.
Untraced == call = NoCall /\ call' = call

Next ==
    \/ \E name \in BoardNames : New(name)
    \/ Return
    \/ \E t \in Callers :
          \/ StartCatalog(t) /\ Untraced
          \/ CatLockTs(t) /\ Untraced
          \/ CatSend(t) /\ Untraced
          \/ \E response \in CatalogResponses :
                CatResponse(t, response) /\ Untraced
          \/ \E now \in Times : CatStamp(t, now) /\ Untraced
          \/ CatInsert(t) /\ Untraced
          \/ \E query \in Queries : StartFindCached(t, query) /\ Untraced
          \/ FindScan(t) /\ Untraced
          \/ FindUpdateSend(t) /\ Untraced
          \/ \E outcome \in UpdateOutcomes :
                FindUpdateResponse(t, outcome) /\ Untraced
          \/ FindRemove(t) /\ Untraced
          \/ \E thread_no \in ThreadNos : StartGetThread(t, thread_no) /\ Untraced
          \/ GetContains(t) /\ Untraced
          \/ GetLockCache(t) /\ Untraced
          \/ GetUpdateSend(t) /\ Untraced
          \/ \E outcome \in UpdateOutcomes :
                GetUpdateResponse(t, outcome) /\ Untraced
          \/ GetRead(t) /\ Untraced
          \/ GetFetchSend(t) /\ Untraced
          \/ \E response \in UNION { ThreadResponses(n) : n \in ThreadNos } :
                GetFetchResponse(t, response) /\ Untraced
          \/ GetInsert(t) /\ Untraced

Spec == Init /\ [][Next]_vars

(***************************************************************************)
(* A sequential execution: one thread makes any number of calls, one after *)
(* the other, by the same steps.  call records what the call in progress   *)
(* has done: the board it started from, the requests and update() calls it *)
(* made, what the transport answered and what it returned.                 *)
(***************************************************************************)
Main == "a"

\* The record of a call, completed when the step ends the call.
Returned(c) ==
    IF procs'[Main].pc = "done"
    THEN [c EXCEPT !.done = TRUE, !.ret = procs'[Main].ret]
    ELSE c

Begin ==
    /\ call = NoCall
    /\ call' = Returned([op |-> procs'[Main].op, arg |-> procs'[Main].arg,
                         done |-> FALSE, pre |-> Self,
                         requests |-> <<>>, updates |-> <<>>,
                         response |-> None, hit |-> FALSE, outcome |-> "none",
                         threads |-> <<>>, removed |-> {}, ret |-> None])

Keep == call' = Returned(call)

LogRequest ==
    call' = Returned([call EXCEPT !.requests = Append(@, procs'[Main].request)])

LogResponse(response) ==
    call' = Returned([call EXCEPT !.response = response])

LogScan ==
    call' = Returned([call EXCEPT !.threads =
                        IF procs'[Main].pc = "done" THEN procs'[Main].ret.val
                        ELSE procs'[Main].threads])

LogUpdate(no, on) ==
    call' = Returned([call EXCEPT !.updates = Append(@, [no |-> no, on |-> on])])

LogCloneUpdated(outcome) ==
    call' = Returned([call EXCEPT
                        !.threads[procs[Main].i] = Update(@, outcome).thread])

LogRemoved ==
    call' = Returned([call EXCEPT !.removed =
                        @ \cup ((DOMAIN Self.thread_cache)
                                  \ (DOMAIN board'.val.thread_cache))])

LogHit ==
    call' = Returned([call EXCEPT !.hit = (procs'[Main].pc = "get_lock_cache")])

LogOutcome(outcome) ==
    call' = Returned([call EXCEPT !.outcome = outcome])

InitSeq ==
    /\ board = None
    /\ call = NoCall
    /\ Quiet

NextSeq ==
    \/ \E name \in BoardNames : New(name)
    \/ Return
    \/ StartCatalog(Main) /\ Begin
    \/ CatLockTs(Main) /\ Keep
    \/ CatSend(Main) /\ LogRequest
    \/ \E response \in CatalogResponses :
          CatResponse(Main, response) /\ LogResponse(response)
    \/ \E now \in Times : CatStamp(Main, now) /\ Keep
    \/ CatInsert(Main) /\ Keep
    \/ \E query \in Queries : StartFindCached(Main, query) /\ Begin
    \/ FindScan(Main) /\ LogScan
    \/ /\ FindUpdateSend(Main)
       /\ LogUpdate(procs[Main].threads[procs[Main].i].topic.no, "clone")
    \/ \E outcome \in UpdateOutcomes :
          FindUpdateResponse(Main, outcome) /\ LogCloneUpdated(outcome)
    \/ FindRemove(Main) /\ LogRemoved
    \/ \E thread_no \in ThreadNos : StartGetThread(Main, thread_no) /\ Begin
    \/ GetContains(Main) /\ LogHit
    \/ GetLockCache(Main) /\ Keep
    \/ GetUpdateSend(Main) /\ LogUpdate(procs[Main].arg, "cache")
    \/ \E outcome \in UpdateOutcomes :
          GetUpdateResponse(Main, outcome) /\ LogOutcome(outcome)
    \/ GetRead(Main) /\ Keep
    \/ GetFetchSend(Main) /\ LogRequest
    \/ \E response \in UNION { ThreadResponses(n) : n \in ThreadNos } :
          GetFetchResponse(Main, response) /\ LogResponse(response)
    \/ GetInsert(Main) /\ Keep
    \/ ThreadReturn(Main) /\ call' = NoCall

SpecSeq == InitSeq /\ [][NextSeq]_vars

(***************************************************************************)
(* Catalog::find is a pure function of a catalog and a query: it is        *)
(* applied to every catalog and query of the bounded sets, next to a       *)
(* freshly constructed board.                                              *)
(***************************************************************************)
InitFind ==
    /\ board = Some(BoardNew("g").val)
    /\ call = NoCall
    /\ Quiet

NextFind ==
    \/ Return
    \/ \E catalog \in Catalogs, query \in Queries : Find(catalog, query)

SpecFind == InitFind /\ [][NextFind]_vars

(***************************************************************************)
(* Properties.  Those of a call in a sequential execution are stated on    *)
(* the record of the call once it has returned: call.pre is the board the  *)
(* call started from and Self the board it leaves.                         *)
(***************************************************************************)
IsCatalogCall(c) == c.done /\ c.op = "catalog"
GotStatus(c, status) == c.response.tag = "Ok" /\ c.response.val.status = status
IsGetThreadCall(c) == c.done /\ c.op = "get_thread"
IsFindCachedScan(c) ==
    c.done /\ c.op = "find_cached" /\ RegexBuild(c.arg).tag = "Ok"

\* C1: find_cached never returns a thread whose expired flag is true after
\* the update() it ran on it; every matching thread that reported expired is
\* absent from the returned list and from the cache when the call returns.
C1_FindCachedExcludesExpired ==
    (call.done /\ call.op = "find_cached" /\ call.ret.tag = "Ok") =>
        /\ \A i \in 1..Len(call.ret.val) : ~call.ret.val[i].expired
        /\ \A n \in call.removed :
              /\ n \notin DOMAIN Self.thread_cache
              /\ \A i \in 1..Len(call.ret.val) : call.ret.val[i].topic.no # n

\* C2: a catalog() call answered 304 returns None and leaves the thread
\* cache and catalog_last_modified as they were.
C2_NotModifiedLeavesBoard ==
    (IsCatalogCall(call) /\ GotStatus(call, 304)) =>
        /\ call.ret = Ok(None)
        /\ Self.thread_cache = call.pre.thread_cache
        /\ Self.catalog_last_modified = call.pre.catalog_last_modified

W_C2 ==
    /\ IsCatalogCall(call) /\ GotStatus(call, 304)
    /\ call.ret = Ok(None)
    /\ DOMAIN Self.thread_cache # {}
    /\ Self.catalog_last_modified # None

\* C3: a catalog() call answered 200 with a parsable body returns
\* Some(catalog); when it returns, with no other caller on the board, the
\* cache holds, for every topic on every page, an entry keyed by the topic's
\* number, and entries for other numbers are left in place.
C3_CatalogIngested ==
    (IsCatalogCall(call) /\ GotStatus(call, 200)
       /\ call.response.val.body.kind = "text") =>
        LET pages == call.response.val.body.json
            before == call.pre.thread_cache
            after == Self.thread_cache
        IN  /\ call.ret = Ok(Some([pages |-> pages]))
            /\ \A p \in 1..Len(pages) : \A i \in 1..Len(pages[p].topics) :
                  LET no == pages[p].topics[i].no
                  IN  /\ no \in DOMAIN after
                      /\ after[no].topic.no = no
                      /\ \E q \in 1..Len(pages) : \E j \in 1..Len(pages[q].topics) :
                            after[no].topic = pages[q].topics[j]
            /\ \A n \in DOMAIN before :
                  /\ n \in DOMAIN after
                  /\ (\A p \in 1..Len(pages) : \A i \in 1..Len(pages[p].topics) :
                         pages[p].topics[i].no # n) => after[n] = before[n]

W_C3 ==
    /\ IsCatalogCall(call) /\ GotStatus(call, 200)
    /\ call.ret.tag = "Ok" /\ call.ret.val # None
    /\ Len(call.ret.val.val.pages) = 2
    /\ Len(call.ret.val.val.pages[1].topics) = 1
    /\ Len(call.ret.val.val.pages[2].topics) = 1
    /\ call.ret.val.val.pages[2].topics[1].no = 2
    /\ call.ret.val.val.pages[1].topics[1].no = 2
    /\ DOMAIN Self.thread_cache = {1, 2}
    /\ Self.thread_cache[1].ver = 1

\* The If-Modified-Since value the documentation of Board::catalog gives for
\* 29 Oct 1994 19:43:31 UTC.
HeaderOf1994 ==
    <<"Sat", ", ", "2", "9", " ", "Oct", " ", "1", "9", "9", "4", " ",
      "1", "9", ":", "4", "3", ":", "3", "1", " GMT">>

\* C4: over any sequence of catalog() calls, a catalog request is
\* unconditional exactly when catalog_last_modified is None at the time of
\* the request, and otherwise carries the recorded timestamp formatted
\* "%a, %d %b %Y %T GMT"; the first call is unconditional and every call
\* after a 200 response is conditional.
C4_ConditionalRequest ==
    /\ IsCatalogCall(call) =>
          LET lm == call.pre.catalog_last_modified
              request == call.requests[1]
          IN  /\ Len(call.requests) = 1
              /\ request.url = <<"https://a.4cdn.org/", call.pre.name, "/catalog.json">>
              /\ (request.ims = None) <=> (lm = None)
              /\ lm # None => request.ims = Some(FormatDate(lm.val))
              /\ (lm # None /\ lm.val.secs = 783459811) =>
                     request.ims = Some(HeaderOf1994)
              /\ GotStatus(call, 200) => Self.catalog_last_modified # None
    /\ (call.op = "new" /\ board # None) => Self.catalog_last_modified = None
    /\ (call.op \in {"catalog", "find_cached", "get_thread"}
          /\ call.pre.catalog_last_modified # None) =>
             Self.catalog_last_modified # None

W_C4 ==
    /\ IsCatalogCall(call)
    /\ call.requests[1].ims = Some(HeaderOf1994)
    /\ Self.catalog_last_modified = Some([secs |-> 1483228805, nanos |-> 0])

\* C5: catalog_last_modified changes only during a catalog() call that
\* returns Some(catalog); a call that returns None or fails leaves it
\* unchanged.
C5_LastModifiedOnlyOnSuccess ==
    (call.done /\ call.op \in {"catalog", "find_cached", "get_thread"}
       /\ Self.catalog_last_modified # call.pre.catalog_last_modified) =>
        /\ call.op = "catalog"
        /\ call.ret.tag = "Ok"
        /\ call.ret.val # None

\* C6: a catalog() call answered with a status other than 200 or 304 fails
\* with UnexpectedResponse, a transport failure of the GET is returned as an
\* error, and both leave the thread cache and catalog_last_modified as they
\* were.
C6_CatalogFailureLeavesBoard ==
    IsCatalogCall(call) =>
        /\ (call.response.tag = "Ok"
              /\ call.response.val.status \notin {200, 304}) =>
              /\ call.ret = Err("UnexpectedResponse")
              /\ Self = call.pre
        /\ call.response.tag = "Err" =>
              /\ call.ret.tag = "Err"
              /\ call.ret = call.response
              /\ Self = call.pre

W_C6 ==
    /\ IsCatalogCall(call) /\ GotStatus(call, 404)
    /\ call.ret = Err("UnexpectedResponse")
    /\ DOMAIN Self.thread_cache # {}
    /\ Self.catalog_last_modified # None

\* C7: in a sequential execution get_thread(id) with id in the cache runs
\* update() once on the cache's own entry for id and returns a value equal
\* to the cache entry after that update; if update() fails it returns that
\* error and no thread.
C7_GetThreadCached ==
    (IsGetThreadCall(call) /\ call.hit) =>
        LET id == call.arg
            before == call.pre.thread_cache
            after == Self.thread_cache
        IN  /\ call.updates = <<[no |-> id, on |-> "cache"]>>
            /\ call.requests = <<>>
            /\ DOMAIN after = DOMAIN before
            /\ \A n \in (DOMAIN before) \ {id} : after[n] = before[n]
            /\ LET u == Update(before[id], call.outcome)
               IN  /\ after[id] = u.thread
                   /\ IF u.res.tag = "Ok"
                      THEN call.ret = Ok(after[id])
                      ELSE call.ret = u.res

W_C7 ==
    /\ IsGetThreadCall(call) /\ call.hit
    /\ call.ret.tag = "Ok"
    /\ call.ret.val.ver = 1
    /\ call.ret.val.expired
    /\ call.ret.val = Self.thread_cache[call.arg]

\* C8: in a sequential execution get_thread(id) with id not in the cache
\* issues one unconditional GET for the thread's JSON; on success the cache
\* gains exactly one entry and the returned thread equals the entry now
\* cached; if the GET, the body read or the deserialization fails the error
\* is returned and the cache is unchanged.
C8_GetThreadFetched ==
    (IsGetThreadCall(call) /\ ~call.hit) =>
        LET id == call.arg
            before == call.pre.thread_cache
            after == Self.thread_cache
        IN  /\ call.requests =
                  <<[url |-> <<"https://a.4cdn.org/", call.pre.name,
                               "/thread/", id, ".json">>,
                     ims |-> None]>>
            /\ call.updates = <<>>
            /\ call.ret.tag = "Ok" =>
                  /\ Cardinality(DOMAIN after) = Cardinality(DOMAIN before) + 1
                  /\ DOMAIN after = (DOMAIN before) \cup {id}
                  /\ \A n \in DOMAIN before : after[n] = before[n]
                  /\ call.ret.val = after[id]
            /\ call.ret.tag = "Err" => after = before
            /\ call.ret.tag = "Ok" <=>
                  (call.response.tag = "Ok"
                     /\ call.response.val.body.kind = "text")

W_C8 ==
    /\ IsGetThreadCall(call) /\ ~call.hit
    /\ call.arg = 2
    /\ call.ret.tag = "Ok"
    /\ DOMAIN Self.thread_cache = {1, 2}
    /\ call.ret.val = Self.thread_cache[2]
    /\ call.ret.val.ver = 1

\* The number of matching topics at or before topic i of page p, counting
\* page by page and, within a page, topic by topic.
MatchRank(pages, regex, p, i) ==
    Cardinality({ pos \in { <<q, j>> : q \in 1..Len(pages), j \in 1..MaxTopics } :
                    /\ pos[2] <= Len(pages[pos[1]].topics)
                    /\ PostIsMatch(pages[pos[1]].topics[pos[2]], regex)
                    /\ (pos[1] < p \/ (pos[1] = p /\ pos[2] <= i)) })

\* C9: Catalog::find with a valid pattern returns None when no topic of any
\* page matches and otherwise Some of exactly the matching topics in page
\* order then in-page order, never Some of an empty sequence, and changes no
\* board state.
C9_CatalogFind ==
    [][(call'.op = "find" /\ RegexBuild(call'.arg).tag = "Ok") =>
          LET pages == call'.catalog.pages
              regex == RegexBuild(call'.arg).val
              hits == { pos \in { <<q, j>> : q \in 1..Len(pages), j \in 1..MaxTopics } :
                          /\ pos[2] <= Len(pages[pos[1]].topics)
                          /\ PostIsMatch(pages[pos[1]].topics[pos[2]], regex) }
          IN  /\ board' = board
              /\ call'.ret.tag = "Ok"
              /\ (call'.ret.val = None) <=> (hits = {})
              /\ call'.ret.val # None =>
                    /\ call'.ret.val.val # <<>>
                    /\ Len(call'.ret.val.val) = Cardinality(hits)
                    /\ \A pos \in hits :
                          call'.ret.val.val[MatchRank(pages, regex, pos[1], pos[2])]
                             = pages[pos[1]].topics[pos[2]]]_vars

W_C9 ==
    /\ call.op = "find"
    /\ call.arg = <<"h", "I">>
    /\ Len(call.catalog.pages) = 2
    /\ Len(call.catalog.pages[1].topics) = 1
    /\ Len(call.catalog.pages[2].topics) = 1
    /\ call.ret = Ok(Some(<<call.catalog.pages[1].topics[1],
                            call.catalog.pages[2].topics[1]>>))
    /\ call.catalog.pages[1].topics[1].no = 2
    /\ call.catalog.pages[2].topics[1].no = 1

\* C10: Board::new with a name the client rejects returns InvalidBoardName
\* and creates no Board; with an accepted name it returns a Board whose
\* thread cache is empty and whose catalog_last_modified is None.
C10_BoardNew ==
    call.op = "new" =>
        /\ call.arg = "zz" =>
              /\ call.ret = Err("InvalidBoardName")
              /\ board = None
        /\ call.arg = "g" =>
              /\ call.ret.tag = "Ok"
              /\ board = Some(call.ret.val)
              /\ Self.name = "g"
              /\ DOMAIN Self.thread_cache = {}
              /\ Self.catalog_last_modified = None

W_C10 ==
    /\ call.op = "new"
    /\ call.arg = "zz"
    /\ call.ret = Err("InvalidBoardName")
    /\ board = None

\* C11: find_cached with a pattern that does not compile fails with
\* InvalidQuery before any thread is updated, any transport call is made or
\* any cache entry is removed; the cache is unchanged.
C11_InvalidQueryLeavesCache ==
    (call.done /\ call.op = "find_cached"
       /\ \E i \in 1..Len(call.arg) : call.arg[i] = "(") =>
        /\ call.ret = Err("InvalidQuery")
        /\ call.updates = <<>>
        /\ call.requests = <<>>
        /\ call.removed = {}
        /\ Self = call.pre

W_C11 ==
    /\ call.done /\ call.op = "find_cached"
    /\ call.arg = <<"(">>
    /\ call.ret = Err("InvalidQuery")
    /\ DOMAIN Self.thread_cache = {1, 2}
    /\ Self.thread_cache[1].expired

\* C12 as stated: every cache entry whose thread reports itself expired
\* during the update() run by get_thread on a cache hit or by find_cached is
\* removed from the cache by that call.
C12_ExpiredRemovedByEveryRefresh ==
    /\ (IsGetThreadCall(call) /\ call.hit /\ call.ret.tag = "Ok"
          /\ call.ret.val.expired) =>
          call.arg \notin DOMAIN Self.thread_cache
    /\ IsFindCachedScan(call) =>
          \A i \in 1..Len(call.updates) :
             (call.ret.tag = "Ok" /\ call.threads[i].expired) =>
                call.threads[i].topic.no \notin DOMAIN Self.thread_cache

\* C12 amended: every thread that reports itself expired during the
\* update() run by find_cached is removed from the cache by that call,
\* whether the call then returns Ok or a later update() fails; get_thread on
\* a cache hit keeps the entry it found expired in the cache and returns it.
C12_ExpiredRemovedByFindCachedOnly ==
    /\ IsFindCachedScan(call) =>
          \A i \in 1..Len(call.updates) :
             LET no == call.threads[i].topic.no
             IN  (call.threads[i].expired
                    /\ ~(i = Len(call.updates) /\ call.ret.tag = "Err")) =>
                    /\ no \in DOMAIN call.pre.thread_cache
                    /\ no \notin DOMAIN Self.thread_cache
                    /\ no \in call.removed
    /\ (IsGetThreadCall(call) /\ call.hit) =>
          /\ call.arg \in DOMAIN Self.thread_cache
          /\ (call.outcome = "expired") =>
                /\ Self.thread_cache[call.arg].expired
                /\ call.ret = Ok(Self.thread_cache[call.arg])

W_C12 ==
    /\ IsFindCachedScan(call)
    /\ call.ret.tag = "Ok"
    /\ Len(call.threads) = 2
    /\ call.threads[1].expired
    /\ ~call.threads[2].expired
    /\ call.removed = {call.threads[1].topic.no}
    /\ DOMAIN Self.thread_cache = {call.threads[2].topic.no}

\* C14: when update() fails on a matching thread during find_cached the
\* call returns that error at once: matching threads later in the scan are
\* neither updated nor removed, the failing thread's entry is not removed,
\* and removals of expired threads made earlier in the call stay in effect.
C14_FindCachedStopsAtError ==
    (IsFindCachedScan(call) /\ call.ret.tag = "Err") =>
        LET before == call.pre.thread_cache
            after == Self.thread_cache
            k == Len(call.updates)
            earlier == { call.threads[i].topic.no : i \in 1..(k - 1) }
        IN  /\ k >= 1
            /\ k <= Len(call.threads)
            /\ call.ret = Err("Transport")
            /\ \A i \in 1..k : call.updates[i].no = call.threads[i].topic.no
            /\ call.threads[k].topic.no \in DOMAIN after
            /\ \A i \in (k + 1)..Len(call.threads) :
                  /\ call.threads[i].topic.no \in DOMAIN after
                  /\ call.threads[i] = before[call.threads[i].topic.no]
            /\ \A n \in DOMAIN after : after[n] = before[n]
            /\ (DOMAIN before) \ (DOMAIN after) =
                  { call.threads[i].topic.no :
                      i \in { j \in 1..(k - 1) : call.threads[j].expired } }
            /\ (DOMAIN before) \ (DOMAIN after) \subseteq earlier

W_C14 ==
    /\ IsFindCachedScan(call)
    /\ call.ret = Err("Transport")
    /\ Len(call.threads) = 2
    /\ Len(call.updates) = 2
    /\ call.threads[1].expired
    /\ call.removed = {call.threads[1].topic.no}
    /\ DOMAIN Self.thread_cache = {call.threads[2].topic.no}

\* C16 as stated: after find_cached has revalidated a matching thread that
\* is not expired, the cache entry for that thread number equals the
\* snapshot find_cached returns for it.
C16_CacheHoldsRevalidatedState ==
    (IsFindCachedScan(call) /\ call.ret.tag = "Ok") =>
        \A i \in 1..Len(call.ret.val) :
           ~call.ret.val[i].expired =>
              /\ call.ret.val[i].topic.no \in DOMAIN Self.thread_cache
              /\ Self.thread_cache[call.ret.val[i].topic.no] = call.ret.val[i]

\* The places <<page, index>> of the topics of a page array.
TopicPlaces(pages) ==
    { pos \in { <<p, i>> : p \in 1..Len(pages), i \in 1..MaxTopics } :
        pos[2] <= Len(pages[pos[1]].topics) }

\* C17: when an ingested catalog carries a thread number on more than one
\* page, or a number already in the cache, the cache afterwards holds one
\* entry for that number, built from the last topic with that number in
\* page order; the cache never gains more entries than there are distinct
\* thread numbers inserted.
C17_LastWriteWins ==
    (IsCatalogCall(call) /\ GotStatus(call, 200)
       /\ call.response.val.body.kind = "text") =>
        LET pages == call.response.val.body.json
            before == call.pre.thread_cache
            after == Self.thread_cache
            places == TopicPlaces(pages)
            nos == { pages[pos[1]].topics[pos[2]].no : pos \in places }
        IN  /\ DOMAIN after = (DOMAIN before) \cup nos
            /\ Cardinality(DOMAIN after) <=
                  Cardinality(DOMAIN before) + Cardinality(nos)
            /\ \A pos \in places :
                  LET topic == pages[pos[1]].topics[pos[2]]
                  IN  (\A later \in places :
                          pages[later[1]].topics[later[2]].no = topic.no =>
                             \/ later[1] < pos[1]
                             \/ (later[1] = pos[1] /\ later[2] <= pos[2])) =>
                      after[topic.no] =
                         [topic |-> topic, expired |-> FALSE, ver |-> 0]

W_C17 ==
    /\ IsCatalogCall(call) /\ GotStatus(call, 200)
    /\ call.ret.tag = "Ok" /\ call.ret.val # None
    /\ Len(call.ret.val.val.pages) = 2
    /\ Len(call.ret.val.val.pages[1].topics) = 1
    /\ Len(call.ret.val.val.pages[2].topics) = 1
    /\ call.ret.val.val.pages[1].topics[1].no = 1
    /\ call.ret.val.val.pages[2].topics[1].no = 1
    /\ call.ret.val.val.pages[1].topics[1] # call.ret.val.val.pages[2].topics[1]
    /\ DOMAIN Self.thread_cache = {1}
    /\ Self.thread_cache[1].topic = call.ret.val.val.pages[2].topics[1]

\* C18: find_cached changes the cache only by removing threads that matched
\* the query and reported expired after update(): every entry that does not
\* match is neither updated nor removed; catalog() and get_thread() never
\* remove a cache entry.
C18_OnlyExpiredMatchesRemoved ==
    /\ IsFindCachedScan(call) =>
          LET before == call.pre.thread_cache
              after == Self.thread_cache
              regex == RegexBuild(call.arg).val
          IN  /\ DOMAIN after \subseteq DOMAIN before
              /\ \A n \in DOMAIN after : after[n] = before[n]
              /\ \A n \in DOMAIN before :
                    ~PostIsMatch(before[n].topic, regex) =>
                       /\ n \in DOMAIN after
                       /\ \A i \in 1..Len(call.updates) : call.updates[i].no # n
              /\ \A n \in (DOMAIN before) \ (DOMAIN after) :
                    /\ PostIsMatch(before[n].topic, regex)
                    /\ \E i \in 1..Len(call.updates) :
                          /\ call.threads[i].topic.no = n
                          /\ call.threads[i].expired
    /\ (call.op \in {"catalog", "get_thread"}) =>
          DOMAIN call.pre.thread_cache \subseteq DOMAIN Self.thread_cache

W_C18 ==
    /\ IsFindCachedScan(call)
    /\ call.arg = <<"h", "I">>
    /\ call.ret.tag = "Ok"
    /\ call.removed = {1}
    /\ DOMAIN Self.thread_cache = {2}
    /\ Self.thread_cache[2].topic.sub = <<>>
    /\ Self.thread_cache[2].expired

\* The positions at which a transport call of the caller is in flight.
InFlight == {"cat_get", "find_get", "get_update_get", "get_fetch_get"}

\* The positions at which the caller is about to take the cache lock or
\* the timestamp lock.
TakesCache == {"cat_insert", "find_scan", "find_remove", "get_contains",
               "get_lock_cache", "get_read", "get_insert"}
TakesTimestamp == {"cat_lock_ts", "cat_stamp"}
TakesClient == {"cat_lock_client", "find_update", "get_update_lock",
                "get_fetch_lock"}

\* C13: under every interleaving with the calls of other threads,
\* get_thread finishes with a thread or a typed error: it never aborts, and
\* the thread it returns is the value the cache entry holds when it returns.
C13_GetThreadNeverAborts ==
    [][\A t \in Callers :
         /\ procs[t].pc \in {"get_lock_cache", "get_read"}
               => procs'[t].pc # "panicked"
         /\ (procs[t].pc \in {"get_read", "get_insert"} /\ procs'[t].pc = "done")
               => /\ procs'[t].ret.tag = "Ok"
                  /\ CacheContains(board'.val.thread_cache, procs[t].arg)
                  /\ board'.val.thread_cache[procs[t].arg] = procs'[t].ret.val]_vars

\* C15: while a transport call of a caller is in flight, the caller holds
\* neither the thread-cache lock nor the catalog_last_modified lock.
C15_NoLockAcrossTransport ==
    \A t \in Callers :
        procs[t].pc \in InFlight
            => /\ locks["cache"].owner # t
               /\ locks["timestamp"].owner # t

\* The lock discipline: a caller that takes the timestamp lock or the cache
\* lock does not hold the client lock, no caller waits for a lock it holds,
\* and the holder of the client lock has its transport call in flight.
LockOrder ==
    \A t \in Callers :
        /\ procs[t].pc \in TakesCache \cup TakesTimestamp
              => locks["client"].owner # t
        /\ procs[t].pc \in TakesCache => locks["cache"].owner # t
        /\ procs[t].pc \in TakesTimestamp => locks["timestamp"].owner # t
        /\ procs[t].pc \in TakesClient => locks["client"].owner # t
        /\ locks["client"].owner = t => procs[t].pc \in InFlight

\* C19: no interleaving deadlocks and every call returns: the locks are
\* taken in the order timestamp then client, or cache then client, no
\* caller waits for a lock it holds, and no call is left unfinished.
C19_EveryCallReturns ==
    /\ LockOrder
    /\ \A t \in Callers : procs[t].pc # "panicked"

====
